---- MODULE Spec2Model ----
(***************************************************************************)
(* Model of the application runtime of opengl-example                      *)
(* (src/src/support/app.rs): the AppRunner that winit drives through       *)
(* `resumed` and `window_event`, and `run_application`, which builds the   *)
(* runner, runs the event loop and drops the runner when the loop returns. *)
(*                                                                         *)
(* Every handler is one action.  The calls a handler makes on its          *)
(* collaborators (the App hooks, the egui input layer and painter, the     *)
(* glutin surface, the window, the event loop, stderr) are recorded, in    *)
(* program order, in `ops`, which holds the calls of the last handler run. *)
(* What the collaborators answer (consumed or not, Ok or Err, the texture  *)
(* deltas of a UI pass) is an input of the event, chosen freely.           *)
(*                                                                         *)
(* Spec and FairSpec run the runner with any App.  TriangleSpec runs it    *)
(* with the TriangleApp of src/src/lib.rs and follows its scene; FrameSpec *)
(* follows the window's pending redraw request; ClockSpec follows the      *)
(* monotonic clock and the runner's frame clock; ShaderSpec is the shader  *)
(* loader of src/src/support/shader.rs under any sequence of its calls.    *)
(***************************************************************************)
EXTENDS Integers, Sequences, FiniteSets, TLC

\* ------------------------------------------------------------------ bounds

\* Resize events carry widths and heights in 0..MaxDim.
MaxDim == 1
\* Texture ids are 1..MaxTex: a UI pass adds at most MaxTex textures and frees
\* at most MaxTex.
MaxTex == 1
\* App.cleanup is counted up to MaxCalls calls; shutdown events stop after that.
MaxCalls == 2
\* A shader program is given at most MaxShaders shader units.
MaxShaders == 3
\* Shader sources and GPU info logs hold at most MaxLen bytes (the log's
\* terminating NUL not counted).
MaxLen == 1
\* The clock is followed up to tick MaxTime.
MaxTime == 3

\* --------------------------------------------------------------- constants

\* with_inner_size(PhysicalSize::new(800, 600))
InitWidth == 800
InitHeight == 600

\* ------------------------------------------------------------------- state

VARIABLES
    window,        \* AppRunner.window is Some
    gl_context,    \* AppRunner.gl_context is Some
    gl_surface,    \* AppRunner.gl_surface is Some
    egui_glow,     \* AppRunner.egui_glow is Some
    egui_state,    \* AppRunner.egui_state is Some
    egui_ctx,      \* AppRunner.egui_ctx is Some
    surfaceSize,   \* <<width, height>> of the glutin surface
    viewport,      \* <<width, height>> last given to gl::Viewport
    windowSize,    \* <<width, height>>: what window.inner_size() returns
    exiting,       \* event_loop.exit() has been called
    phase,         \* "running": inside run_app; "returned": run_application is over
    cleanupCalls,  \* calls of App.cleanup so far
    destroyCalls,  \* calls of egui_glow.destroy so far
    event,         \* the last event winit delivered, with its inputs
    ops,           \* the calls made while handling it, in program order
    scene,         \* TriangleApp.scene, when the App that runs is a TriangleApp
    redrawRequested, \* window.request_redraw() was called and no
                     \* RedrawRequested has been delivered since
    frameParity,   \* the number of frames drawn so far, modulo 2
    loader,        \* a ShaderProgram and the shader units the GPU made for it
    lastCall,      \* the last call made on the ShaderProgram, with its inputs
    clock          \* the monotonic clock and the runner's frame clock

vars == <<window, gl_context, gl_surface, egui_glow, egui_state, egui_ctx,
          surfaceSize, viewport, windowSize, exiting, phase,
          cleanupCalls, destroyCalls, event, ops, scene,
          redrawRequested, frameParity, loader, lastCall, clock>>

\* The runner, its app and its window: all but the shader loader.
hostVars == <<window, gl_context, gl_surface, egui_glow, egui_state, egui_ctx,
              surfaceSize, viewport, windowSize, exiting, phase,
              cleanupCalls, destroyCalls, event, ops, scene,
              redrawRequested, frameParity>>

\* The shader loader, followed in ShaderSpec.
loaderVars == <<loader, lastCall>>

\* What the window keeps of the redraw requests, and the count of frames;
\* followed only where the requests of redraws are (FrameSpec).
frameVars == <<redrawRequested, frameParity>>

runnerFields == <<window, gl_context, gl_surface, egui_glow, egui_state, egui_ctx>>

\* ------------------------------------------------------------------- calls

\* One recorded call: its name and up to two integer arguments.
Op(name) == [op |-> name, x |-> 0, y |-> 0]
Op1(name, a) == [op |-> name, x |-> a, y |-> 0]
Op2(name, a, b) == [op |-> name, x |-> a, y |-> b]

\* Logged, were a failed call to end the run instead of only being reported.
Logged_ExitOnError(call, ok, msg) ==
    IF ok THEN <<call>> ELSE <<call, Op(msg), Op("exit")>>

\* `if let Err(error) = hook() { eprintln!(...) }`: the call, and the line
\* printed to stderr when it failed.  Nothing else depends on the result.
Logged(call, ok, msg) == IF ok THEN <<call>> ELSE <<call, Op(msg)>>

\* The calls named `name` among `calls`.
Count(calls, name) == Cardinality({i \in DOMAIN calls : calls[i].op = name})

\* The positions of the calls named `name` among `calls`.
Positions(calls, name) == {i \in DOMAIN calls : calls[i].op = name}

\* <<x, y>> of the last call among `calls` whose name is in `names`, or `cur`
\* when there is none: the size a surface or viewport is left with.
SizeAfter(calls, names, cur) ==
    LET at == {i \in DOMAIN calls : calls[i].op \in names}
    IN  IF at = {} THEN cur
        ELSE LET last == CHOOSE i \in at : \A j \in at : j <= i
             IN  <<calls[last].x, calls[last].y>>

\* ------------------------------------------------------------------ events

Kinds == {"CloseRequested", "Resized", "KeyboardInput", "RedrawRequested", "Other"}

\* PhysicalKey::Code(Escape), PhysicalKey::Code(<another key>), and
\* PhysicalKey::Unidentified(_), which the KeyboardInput arm does not match.
Keys == {"Escape", "KeyA", "Unidentified"}

Dims == 0..MaxDim
TexIds == 1..MaxTex

\* The texture ids of one side of a TexturesDelta: a Vec of ids, here the
\* first n ids in order, n <= MaxTex (so the two sides may share ids).
TexSeqs == {[i \in 1..n |-> i] : n \in 0..MaxTex}

\* What a call may answer: Ok or Err when it is made, and nothing to choose
\* when it is not.
Answers(called) == IF called THEN BOOLEAN ELSE {TRUE}

\* An event and everything the collaborators answer while it is handled.
\* Fields an event kind does not read keep the value given here.
NoEvent ==
    [kind |-> "None", consumed |-> FALSE, w |-> 0, h |-> 0,
     key |-> "Unidentified", pressed |-> FALSE,
     initOk |-> TRUE, cleanupOk |-> TRUE, resizeOk |-> TRUE,
     updateOk |-> TRUE, renderOk |-> TRUE, uiOk |-> TRUE,
     set |-> <<>>, free |-> <<>>]

\* ---------------------------------------------------------------- handlers

\* ResumedOps, were a failed initialize to end the startup.
ResumedOps_StopOnInitError(w, h, initOk, resizeOk) ==
    <<Op("create_window"), Op("create_context"), Op2("create_surface", w, h),
      Op2("make_current", w, h), Op("gl_load_with"), Op("enable_gl_debug"),
      Op("create_painter"), Op("create_egui_ctx"), Op("create_egui_state")>>
    \o (IF initOk
        THEN <<Op("initialize")>>
             \o Logged(Op2("on_resize", w, h), resizeOk, "Resize error")
             \o <<Op("store_fields")>>
        ELSE <<Op("initialize"), Op("Initialization error")>>)

\* AppRunner::resumed past its `window.is_some()` guard, for a window whose
\* inner size is <<w, h>>.  Its last step stores the window, the context,
\* the surface, the painter and the UI state and context in the runner.
ResumedOps(w, h, initOk, resizeOk) ==
    <<Op("create_window"), Op("create_context"), Op2("create_surface", w, h),
      Op2("make_current", w, h), Op("gl_load_with"), Op("enable_gl_debug"),
      Op("create_painter"), Op("create_egui_ctx"), Op("create_egui_state")>>
    \o Logged(Op("initialize"), initOk, "Initialization error")
    \o Logged(Op2("on_resize", w, h), resizeOk, "Resize error")
    \o <<Op("store_fields")>>

\* CloseRequestedOps, were the painter destroyed before the App cleans up.
CloseRequestedOps_DestroyFirst(cleanupOk) ==
    <<Op("destroy")>>
    \o Logged(Op("cleanup"), cleanupOk, "Cleanup error")
    \o <<Op("exit")>>

\* CloseRequestedOps, were the event loop not asked to exit.
CloseRequestedOps_NoExit(cleanupOk) ==
    Logged(Op("cleanup"), cleanupOk, "Cleanup error")
    \o <<Op("destroy")>>

\* CloseRequestedOps, were a failed cleanup to end the arm.
CloseRequestedOps_StopOnCleanupError(cleanupOk) ==
    IF cleanupOk THEN <<Op("cleanup"), Op("destroy"), Op("exit")>>
    ELSE <<Op("cleanup"), Op("Cleanup error")>>

\* The WindowEvent::CloseRequested arm.
CloseRequestedOps(cleanupOk) ==
    Logged(Op("cleanup"), cleanupOk, "Cleanup error")
    \o <<Op("destroy"), Op("exit")>>

\* ResizedOps, were the zero-size guard missing.
ResizedOps_NoZeroGuard(w, h, haveSurface, resizeOk) ==
    (IF haveSurface THEN <<Op2("surface_resize", w, h)>> ELSE <<>>)
    \o <<Op2("gl_viewport", w, h)>>
    \o Logged(Op2("on_resize", w, h), resizeOk, "Resize error")

\* ResizedOps, were the App told of the size before the surface and the
\* viewport have it.
ResizedOps_HookFirst(w, h, haveSurface, resizeOk) ==
    IF w = 0 \/ h = 0 THEN <<>>
    ELSE Logged(Op2("on_resize", w, h), resizeOk, "Resize error")
         \o (IF haveSurface THEN <<Op2("surface_resize", w, h)>> ELSE <<>>)
         \o <<Op2("gl_viewport", w, h)>>

\* The WindowEvent::Resized arm; `haveSurface` is gl_context and gl_surface
\* both being Some.
ResizedOps(w, h, haveSurface, resizeOk) ==
    IF w = 0 \/ h = 0 THEN <<>>
    ELSE (IF haveSurface THEN <<Op2("surface_resize", w, h)>> ELSE <<>>)
         \o <<Op2("gl_viewport", w, h)>>
         \o Logged(Op2("on_resize", w, h), resizeOk, "Resize error")

\* The WindowEvent::KeyboardInput arm, which reads the key code and not
\* whether the key went down or up.
KeyboardInputOps(key, cleanupOk) ==
    IF key = "Escape"
    THEN Logged(Op("cleanup"), cleanupOk, "Cleanup error")
         \o <<Op("destroy"), Op("exit")>>
    ELSE <<>>

\* One call per element of a texture delta, in the Vec's order.
TextureOps(name, ids) == [i \in DOMAIN ids |-> Op1(name, ids[i])]

\* RedrawRequestedOps, were the surface presented before the overlay is
\* painted.
RedrawRequestedOps_PresentBeforePaint(w, h, updateOk, renderOk, uiOk, set, free, haveSurface) ==
    Logged(Op("update"), updateOk, "Update error")
    \o Logged(Op("render"), renderOk, "Render error")
    \o <<Op("take_egui_input"), Op("begin_pass")>>
    \o Logged(Op("render_ui"), uiOk, "UI render error")
    \o <<Op("end_pass"), Op("handle_platform_output"), Op("tessellate")>>
    \o (IF haveSurface THEN <<Op("swap_buffers")>> ELSE <<>>)
    \o TextureOps("set_texture", set)
    \o <<Op("gl_disable_scissor"), Op2("paint_primitives", w, h)>>
    \o TextureOps("free_texture", free)
    \o <<Op("request_redraw")>>

\* RedrawRequestedOps, were the removed textures freed before the paint.
RedrawRequestedOps_FreeBeforePaint(w, h, updateOk, renderOk, uiOk, set, free, haveSurface) ==
    Logged(Op("update"), updateOk, "Update error")
    \o Logged(Op("render"), renderOk, "Render error")
    \o <<Op("take_egui_input"), Op("begin_pass")>>
    \o Logged(Op("render_ui"), uiOk, "UI render error")
    \o <<Op("end_pass"), Op("handle_platform_output"), Op("tessellate")>>
    \o TextureOps("set_texture", set)
    \o TextureOps("free_texture", free)
    \o <<Op("gl_disable_scissor"), Op2("paint_primitives", w, h)>>
    \o (IF haveSurface THEN <<Op("swap_buffers")>> ELSE <<>>)
    \o <<Op("request_redraw")>>

\* RedrawRequestedOps, were no further redraw requested.
RedrawRequestedOps_NoRequest(w, h, updateOk, renderOk, uiOk, set, free, haveSurface) ==
    Logged(Op("update"), updateOk, "Update error")
    \o Logged(Op("render"), renderOk, "Render error")
    \o <<Op("take_egui_input"), Op("begin_pass")>>
    \o Logged(Op("render_ui"), uiOk, "UI render error")
    \o <<Op("end_pass"), Op("handle_platform_output"), Op("tessellate")>>
    \o TextureOps("set_texture", set)
    \o <<Op("gl_disable_scissor"), Op2("paint_primitives", w, h)>>
    \o TextureOps("free_texture", free)
    \o (IF haveSurface THEN <<Op("swap_buffers")>> ELSE <<>>)

\* The WindowEvent::RedrawRequested arm, for a window whose inner size is
\* <<w, h>> and a UI pass whose output adds `set` and frees `free`.
\* (A failed swap_buffers only prints a line to stderr, which is left out.)
RedrawRequestedOps(w, h, updateOk, renderOk, uiOk, set, free, haveSurface) ==
    Logged(Op("update"), updateOk, "Update error")
    \o Logged(Op("render"), renderOk, "Render error")
    \o <<Op("take_egui_input"), Op("begin_pass")>>
    \o Logged(Op("render_ui"), uiOk, "UI render error")
    \o <<Op("end_pass"), Op("handle_platform_output"), Op("tessellate")>>
    \o TextureOps("set_texture", set)
    \o <<Op("gl_disable_scissor"), Op2("paint_primitives", w, h)>>
    \o TextureOps("free_texture", free)
    \o (IF haveSurface THEN <<Op("swap_buffers")>> ELSE <<>>)
    \o <<Op("request_redraw")>>

\* WindowEventOps, were the answer of the UI input layer not looked at.
WindowEventOps_ConsumedIgnored(e) ==
    IF ~window THEN <<>>
    ELSE IF ~(egui_state /\ egui_ctx /\ egui_glow) THEN <<>>
    ELSE <<Op("on_window_event")>> \o
         (CASE e.kind = "CloseRequested" -> CloseRequestedOps(e.cleanupOk)
            [] e.kind = "Resized" ->
                   ResizedOps(e.w, e.h, gl_context /\ gl_surface, e.resizeOk)
            [] e.kind = "KeyboardInput" /\ e.key # "Unidentified" ->
                   KeyboardInputOps(e.key, e.cleanupOk)
            [] e.kind = "RedrawRequested" ->
                   RedrawRequestedOps(windowSize[1], windowSize[2],
                                      e.updateOk, e.renderOk, e.uiOk,
                                      e.set, e.free, gl_surface /\ gl_context)
            [] OTHER -> <<>>)

\* WindowEventOps, were the guards on the runner's optional fields missing.
WindowEventOps_NoGuards(e) ==
    <<Op("on_window_event")>> \o
    (IF e.consumed THEN <<>>
     ELSE CASE e.kind = "CloseRequested" -> CloseRequestedOps(e.cleanupOk)
            [] e.kind = "Resized" ->
                   ResizedOps(e.w, e.h, gl_context /\ gl_surface, e.resizeOk)
            [] e.kind = "KeyboardInput" /\ e.key # "Unidentified" ->
                   KeyboardInputOps(e.key, e.cleanupOk)
            [] e.kind = "RedrawRequested" ->
                   RedrawRequestedOps(windowSize[1], windowSize[2],
                                      e.updateOk, e.renderOk, e.uiOk,
                                      e.set, e.free, gl_surface /\ gl_context)
            [] OTHER -> <<>>)

\* What window_event does with event `e`: nothing before the runner is
\* initialised, only the offer to the UI input layer when that consumes the
\* event, and otherwise the arm of the event's kind.
WindowEventOps(e) ==
    IF ~window THEN <<>>
    ELSE IF ~(egui_state /\ egui_ctx /\ egui_glow) THEN <<>>
    ELSE <<Op("on_window_event")>> \o
         (IF e.consumed THEN <<>>
          ELSE CASE e.kind = "CloseRequested" -> CloseRequestedOps(e.cleanupOk)
                 [] e.kind = "Resized" ->
                        ResizedOps(e.w, e.h, gl_context /\ gl_surface, e.resizeOk)
                 [] e.kind = "KeyboardInput" /\ e.key # "Unidentified" ->
                        KeyboardInputOps(e.key, e.cleanupOk)
                 [] e.kind = "RedrawRequested" ->
                        RedrawRequestedOps(windowSize[1], windowSize[2],
                                           e.updateOk, e.renderOk, e.uiOk,
                                           e.set, e.free, gl_surface /\ gl_context)
                 [] OTHER -> <<>>)

\* ResumedCalls, were the `window.is_some()` guard missing.
ResumedCalls_NoGuard(initOk, resizeOk) ==
    ResumedOps(windowSize[1], windowSize[2], initOk, resizeOk)

\* What resumed does: nothing when the window already exists, and otherwise
\* the whole startup, for the inner size of the window it creates.
ResumedCalls(initOk, resizeOk) ==
    IF window THEN <<>>
    ELSE ResumedOps(windowSize[1], windowSize[2], initOk, resizeOk)

\* The fields of the runner after the calls `calls`: resumed stores all six
\* at its end, and nothing ever clears them.
Stored(cur, calls) == cur \/ Count(calls, "store_fields") > 0

\* The runner and its collaborators after a handler made the calls `calls`.
Handled(calls) ==
    /\ ops' = calls
    /\ window' = Stored(window, calls)
    /\ gl_context' = Stored(gl_context, calls)
    /\ gl_surface' = Stored(gl_surface, calls)
    /\ egui_glow' = Stored(egui_glow, calls)
    /\ egui_state' = Stored(egui_state, calls)
    /\ egui_ctx' = Stored(egui_ctx, calls)
    /\ surfaceSize' = SizeAfter(calls, {"create_surface", "surface_resize"}, surfaceSize)
    /\ viewport' = SizeAfter(calls, {"make_current", "gl_viewport"}, viewport)
    /\ exiting' = (exiting \/ Count(calls, "exit") > 0)
    /\ cleanupCalls' = cleanupCalls + Count(calls, "cleanup")
    /\ destroyCalls' = destroyCalls + Count(calls, "destroy")
    /\ UNCHANGED loaderVars

\* ------------------------------------------------------------- TriangleApp
\* src/src/lib.rs: the App that main.rs runs.  Its state is `scene`, an
\* Option<Scene>; of a Scene the model keeps aspect_ratio, projection_dirty
\* and projection, and three records of what happened to it:
\*   recomputes  how often projection was recomputed since aspect_ratio was
\*               last assigned (counted up to 2),
\*   repeated    a set_aspect_ratio call has left aspect_ratio as it was
\*               since it was last assigned,
\*   staleRender a render has used a projection that was marked dirty or
\*               was not the perspective of aspect_ratio.

RECURSIVE GCD(_, _)
GCD(a, b) == IF b = 0 THEN a ELSE GCD(b, a % b)

\* `width as f32 / height.max(1) as f32`: the quotient, as a fraction in
\* lowest terms.  The sizes of the model are exact in f32 and a correctly
\* rounded division gives equal fractions the same f32.
Ratio(width, height) ==
    LET h == IF height > 1 THEN height ELSE 1
        g == GCD(width, h)
    IN  <<width \div g, h \div g>>

\* 1 / f32::EPSILON, which is 2^-23.
EpsilonInverse == 8388608

\* `(a - b).abs() > f32::EPSILON` for two ratios: |a1*b2 - b1*a2| / (a2*b2)
\* exceeds 2^-23.  (Two ratios of the model that differ do so by far more
\* than the rounding of the division and of the subtraction.)
Differs(a, b) ==
    LET d == a[1] * b[2] - b[1] * a[2]
        abs == IF d < 0 THEN 0 - d ELSE d
    IN  abs > (a[2] * b[2]) \div EpsilonInverse

\* The identity matrix, which is the perspective of no ratio.
Identity == <<0, 0>>

\* nalgebra_glm::perspective_lh_zo(aspect, ...): the matrix, named by the
\* ratio it is computed from (the other arguments are fixed).
Perspective(aspect) == aspect

NoScene ==
    [some |-> FALSE, aspect_ratio |-> <<1, 1>>, projection_dirty |-> FALSE,
     projection |-> Identity, recomputes |-> 0, repeated |-> FALSE,
     staleRender |-> FALSE]

\* Scene::new, when it succeeds.
SceneNew ==
    [some |-> TRUE, aspect_ratio |-> <<1, 1>>, projection_dirty |-> TRUE,
     projection |-> Identity, recomputes |-> 0, repeated |-> FALSE,
     staleRender |-> FALSE]

\* set_aspect_ratio, were the flag set by every call.
set_aspect_ratio_AlwaysDirty(s, width, height) ==
    LET new_aspect_ratio == Ratio(width, height)
    IN  IF Differs(new_aspect_ratio, s.aspect_ratio)
        THEN [s EXCEPT !.aspect_ratio = new_aspect_ratio,
                       !.projection_dirty = TRUE,
                       !.recomputes = 0, !.repeated = FALSE]
        ELSE [s EXCEPT !.projection_dirty = TRUE, !.repeated = TRUE]

\* Scene::set_aspect_ratio.
set_aspect_ratio(s, width, height) ==
    LET new_aspect_ratio == Ratio(width, height)
    IN  IF Differs(new_aspect_ratio, s.aspect_ratio)
        THEN [s EXCEPT !.aspect_ratio = new_aspect_ratio,
                       !.projection_dirty = TRUE,
                       !.recomputes = 0, !.repeated = FALSE]
        ELSE [s EXCEPT !.repeated = TRUE]

\* Scene::update_projection.
update_projection(s) ==
    IF s.projection_dirty
    THEN [s EXCEPT !.projection = Perspective(s.aspect_ratio),
                   !.projection_dirty = FALSE,
                   !.recomputes = IF @ < 2 THEN @ + 1 ELSE @]
    ELSE s

\* Scene::render, which multiplies self.projection into the matrix it draws
\* with.
SceneRender(s) ==
    [s EXCEPT !.staleRender =
        @ \/ s.projection_dirty \/ s.projection # Perspective(s.aspect_ratio)]

\* TriangleApp::initialize: `self.scene = Some(Scene::new()?)`.
TriangleInitialize(app, ok) == IF ok THEN SceneNew ELSE app

\* TriangleUpdate, were the projection not brought up to date.
TriangleUpdate_NoProjection(app) == app

\* TriangleApp::update (Scene::update turns the model matrix, which nothing
\* here reads).
TriangleUpdate(app) == IF app.some THEN update_projection(app) ELSE app

\* TriangleApp::render.
TriangleRender(app) == IF app.some THEN SceneRender(app) ELSE app

\* TriangleApp::on_resize.
TriangleOnResize(app, width, height) ==
    IF app.some THEN set_aspect_ratio(app, width, height) ELSE app

\* The TriangleApp after the hook that the recorded call `c` names (render_ui
\* does not touch the scene and cleanup is the trait's default).
HookApplied(app, c, initOk) ==
    CASE c.op = "initialize" -> TriangleInitialize(app, initOk)
      [] c.op = "update" -> TriangleUpdate(app)
      [] c.op = "render" -> TriangleRender(app)
      [] c.op = "on_resize" -> TriangleOnResize(app, c.x, c.y)
      [] OTHER -> app

\* The TriangleApp after the hooks among `calls`, in the order of the calls.
RECURSIVE AppAfter(_, _, _)
AppAfter(app, calls, initOk) ==
    IF calls = <<>> THEN app
    ELSE AppAfter(HookApplied(app, Head(calls), initOk), Tail(calls), initOk)

\* ------------------------------------------------------------ shader loader
\* src/src/support/shader.rs.  `loader` is a ShaderProgram with, of the GPU's
\* side, what the calls on it change:
\*   shader_ids  ShaderProgram.shader_ids
\*   created     the shader units gl::CreateShader has made, whose ids are
\*               1..created
\*   attached    the ids given to gl::AttachShader
\*   deleted     the ids given to gl::DeleteShader, in the order of the calls
\* What the file system and the GPU answer is an input of each call.

\* The bytes of a shader source: NUL and an ASCII letter.
SourceBytes == {0, 65}

\* The bytes of an info log: an ASCII letter and a byte that is not UTF-8.
LogBytes == {65, 255}

\* The sequences of at most MaxLen elements of `bytes`.
BytesUpTo(bytes) == UNION {[1..n -> bytes] : n \in 0..MaxLen}

\* What GL_INFO_LOG_LENGTH and glGet*InfoLog give: no log, of length 0, or
\* a text, whose length counts the terminating NUL.
NoLog == [length |-> 0, text |-> <<>>]
Logs == {NoLog} \cup {[length |-> Len(t) + 1, text |-> t] : t \in BytesUpTo(LogBytes)}

\* What the GPU answers to a compile or a link: the status, and the info log
\* when it failed.
GpuAnswers ==
    {[success |-> TRUE, log |-> NoLog]}
    \cup {[success |-> FALSE, log |-> log] : log \in Logs}

\* What fs::read_to_string answers: an error, or the source text.
Files ==
    {[readable |-> FALSE, source |-> <<>>]}
    \cup {[readable |-> TRUE, source |-> src] : src \in BytesUpTo(SourceBytes)}

\* String::from_utf8_lossy: a byte that is not UTF-8 becomes U+FFFD.
from_utf8_lossy(bytes) ==
    [i \in DOMAIN bytes |-> IF bytes[i] < 128 THEN bytes[i] ELSE 65533]

\* A Result<()>: Ok, or the kind of the error and the text it carries.
Ok == [kind |-> "Ok", text |-> <<>>]
Err(kind, text) == [kind |-> kind, text |-> text]

\* check_compile_status and check_link_status, which differ in the words of
\* their errors (`what` is "Compile" or "Link"): the log is read into a
\* buffer of `length` bytes and all of it but the last byte is the message.
check_status(what, gpu) ==
    IF gpu.success THEN Ok
    ELSE IF gpu.log.length > 0
         THEN LET buffer == gpu.log.text \o <<0>>
                  error_message ==
                      from_utf8_lossy(SubSeq(buffer, 1, gpu.log.length - 1))
              IN  Err(what \o "Failed", error_message)
         ELSE Err(what \o "FailedNoMessage", <<>>)

\* Shader::load: CString::new refuses a source with a NUL byte, before the
\* GPU is given anything.
load(source, gpu) ==
    IF \E i \in DOMAIN source : source[i] = 0
    THEN Err("NulByte", <<>>)
    ELSE check_status("Compile", gpu)

\* Shader::load_file.
load_file(file, gpu) ==
    IF ~file.readable THEN Err("ReadFailed", <<>>)
    ELSE load(file.source, gpu)

\* What the GPU is asked by load_file(file, ...): nothing unless the file was
\* read and its source made a CString.
Compiles(file) ==
    file.readable /\ \A i \in DOMAIN file.source : file.source[i] # 0

\* ShaderProgram::new.
ShaderProgramNew ==
    [shader_ids |-> <<>>, created |-> 0, attached |-> {}, deleted |-> <<>>]

\* attach, were the unit attached and recorded before its source is loaded.
attach_BeforeLoad(l, file, gpu) ==
    LET id == l.created + 1
    IN  [l EXCEPT !.created = id,
                  !.attached = @ \cup {id},
                  !.shader_ids = Append(@, id)]

\* ShaderProgram::attach: the loader after it, the shader unit made being
\* created + 1.
attach(l, file, gpu) ==
    LET id == l.created + 1
        made == [l EXCEPT !.created = id]
    IN  IF load_file(file, gpu).kind = "Ok"
        THEN [made EXCEPT !.attached = @ \cup {id},
                          !.shader_ids = Append(@, id)]
        ELSE made

\* link, were shader_ids not cleared.
link_NoClear(l, gpu) ==
    IF check_status("Link", gpu).kind = "Ok"
    THEN [l EXCEPT !.deleted = @ \o l.shader_ids]
    ELSE l

\* ShaderProgram::link: the loader after it.
link(l, gpu) ==
    IF check_status("Link", gpu).kind = "Ok"
    THEN [l EXCEPT !.deleted = @ \o l.shader_ids, !.shader_ids = <<>>]
    ELSE l

\* No call yet.
NoCall ==
    [name |-> "new", result |-> Ok, file |-> [readable |-> FALSE, source |-> <<>>],
     gpu |-> [success |-> TRUE, log |-> NoLog], pending |-> <<>>, released |-> <<>>]

\* -------------------------------------------------------------- frame clock
\* Instants are whole ticks of a monotonic clock, a tick being a second.
\* `clock` holds what Instant::now() returns, the runner's start_time and
\* last_frame_time, and of the last frame the delta_time given to App.update
\* and the time given to App.render; deltaSum is the f32 sum of every
\* delta_time given to App.update so far.

\* The distance between the f32 values around `d`: 1 below 2^24, and twice
\* as much with every further bit.
RECURSIVE Ulp(_)
Ulp(d) == IF d < 16777216 THEN 1 ELSE 2 * Ulp(d \div 2)

\* The f32 nearest to the integer `d`, ties to the even one.
RoundF32(d) ==
    LET u == Ulp(d)
        q == d \div u
        r == d % u
    IN  IF 2 * r < u THEN q * u
        ELSE IF 2 * r > u THEN (q + 1) * u
        ELSE IF q % 2 = 0 THEN q * u ELSE (q + 1) * u

\* Duration::as_secs_f32 of a duration of `d` whole seconds.
as_secs_f32(d) == RoundF32(d)

\* run_application reads the clock, at tick `t`, for start_time and
\* last_frame_time.
ClockNew(t) ==
    [now |-> t, start_time |-> t, last_frame_time |-> t,
     delta_time |-> 0, time |-> 0, deltaSum |-> 0]

\* FrameClock, were the start time taken anew with every frame.
FrameClock_Restart(c) ==
    LET delta_time == as_secs_f32(c.now - c.last_frame_time)
        time == as_secs_f32(c.now - c.now)
    IN  [c EXCEPT !.start_time = c.now,
                  !.last_frame_time = c.now,
                  !.delta_time = delta_time,
                  !.time = time,
                  !.deltaSum = RoundF32(@ + delta_time)]

\* The first statements of the RedrawRequested arm: the clock is read once,
\* delta_time and time are taken from it and last_frame_time is set to it.
FrameClock(c) ==
    LET delta_time == as_secs_f32(c.now - c.last_frame_time)
        time == as_secs_f32(c.now - c.start_time)
    IN  [c EXCEPT !.last_frame_time = c.now,
                  !.delta_time = delta_time,
                  !.time = time,
                  !.deltaSum = RoundF32(@ + delta_time)]

\* The clock after a handler that made the calls `calls`: only the
\* RedrawRequested arm, which calls update, reads it.
ClockAfter(c, calls) ==
    IF Count(calls, "update") > 0 THEN FrameClock(c) ELSE c

\* ----------------------------------------------------------------- actions

\* run_application up to run_app: the runner with every optional field None.
Init ==
    /\ window = FALSE /\ gl_context = FALSE /\ gl_surface = FALSE
    /\ egui_glow = FALSE /\ egui_state = FALSE /\ egui_ctx = FALSE
    /\ surfaceSize = <<0, 0>>
    /\ viewport = <<0, 0>>
    /\ windowSize = <<InitWidth, InitHeight>>
    /\ exiting = FALSE
    /\ phase = "running"
    /\ cleanupCalls = 0
    /\ destroyCalls = 0
    /\ event = NoEvent
    /\ ops = <<>>
    /\ scene = NoScene
    /\ redrawRequested = FALSE
    /\ frameParity = 0
    /\ loader = ShaderProgramNew
    /\ lastCall = NoCall
    /\ clock = ClockNew(1)

\* winit calls AppRunner::resumed.
Resumed ==
    /\ phase = "running"
    /\ \E initOk \in Answers(~window), resizeOk \in Answers(~window) :
        /\ event' = [NoEvent EXCEPT !.kind = "Resumed",
                                    !.initOk = initOk, !.resizeOk = resizeOk]
        /\ Handled(ResumedCalls(initOk, resizeOk))
    /\ UNCHANGED <<windowSize, phase, scene, frameVars, clock>>

\* winit delivers WindowEvent::CloseRequested.
CloseRequested ==
    /\ phase = "running"
    /\ cleanupCalls < MaxCalls
    /\ \E consumed \in BOOLEAN :
       \E cleanupOk \in Answers(~consumed) :
        LET e == [NoEvent EXCEPT !.kind = "CloseRequested",
                                 !.consumed = consumed, !.cleanupOk = cleanupOk]
        IN  event' = e /\ Handled(WindowEventOps(e))
    /\ UNCHANGED <<windowSize, phase, scene, frameVars, clock>>

\* The window's client area becomes <<w, h>> and winit delivers
\* WindowEvent::Resized for it.
Resized ==
    /\ phase = "running"
    /\ \E w \in Dims, h \in Dims, consumed \in BOOLEAN :
       \E resizeOk \in Answers(~consumed /\ w # 0 /\ h # 0) :
        LET e == [NoEvent EXCEPT !.kind = "Resized", !.w = w, !.h = h,
                                 !.consumed = consumed, !.resizeOk = resizeOk]
        IN  /\ event' = e
            /\ Handled(WindowEventOps(e))
            /\ windowSize' = IF window THEN <<w, h>> ELSE windowSize
    /\ UNCHANGED <<phase, scene, frameVars, clock>>

\* winit delivers WindowEvent::KeyboardInput, for a key going down or up.
KeyboardInput ==
    /\ phase = "running"
    /\ cleanupCalls < MaxCalls
    /\ \E key \in Keys, pressed \in BOOLEAN, consumed \in BOOLEAN :
       \E cleanupOk \in Answers(~consumed /\ key = "Escape") :
        LET e == [NoEvent EXCEPT !.kind = "KeyboardInput", !.key = key,
                                 !.pressed = pressed,
                                 !.consumed = consumed, !.cleanupOk = cleanupOk]
        IN  event' = e /\ Handled(WindowEventOps(e))
    /\ UNCHANGED <<windowSize, phase, scene, frameVars, clock>>

\* winit delivers WindowEvent::RedrawRequested.
RedrawRequested ==
    /\ phase = "running"
    /\ \E consumed \in BOOLEAN :
       \E updateOk \in Answers(~consumed), renderOk \in Answers(~consumed),
          uiOk \in Answers(~consumed),
          set \in (IF consumed THEN {<<>>} ELSE TexSeqs),
          free \in (IF consumed THEN {<<>>} ELSE TexSeqs) :
        LET e == [NoEvent EXCEPT !.kind = "RedrawRequested", !.consumed = consumed,
                                 !.updateOk = updateOk, !.renderOk = renderOk,
                                 !.uiOk = uiOk,
                                 !.set = set, !.free = free]
        IN  event' = e /\ Handled(WindowEventOps(e))
    /\ UNCHANGED <<windowSize, phase, scene, frameVars, clock>>

\* winit delivers a window event of any other kind (the `_ => ()` arm).
OtherEvent ==
    /\ phase = "running"
    /\ \E consumed \in BOOLEAN :
        LET e == [NoEvent EXCEPT !.kind = "Other", !.consumed = consumed]
        IN  event' = e /\ Handled(WindowEventOps(e))
    /\ UNCHANGED <<windowSize, phase, scene, frameVars, clock>>

\* The fields of AppRunner, dropped in declaration order when run_application
\* returns.
RunnerDropOps ==
    <<Op("drop_window"), Op("drop_gl_context"), Op("drop_gl_surface"),
      Op("drop_egui_glow"), Op("drop_egui_state"), Op("drop_egui_ctx"),
      Op("drop_app")>>

\* Dropping a Scene: Scene::drop deletes the index buffer, the vertex buffer
\* and the vertex array, and then the scene's fields are dropped, of which
\* the ShaderProgram deletes the program.
SceneDropOps ==
    <<Op("gl_delete_buffers_ibo"), Op("gl_delete_buffers_vbo"),
      Op("gl_delete_vertex_arrays"), Op("gl_delete_program")>>

\* What the drop of the runner does: its fields in order, and with the app,
\* the last of them, the scene of a TriangleApp that has one.
DropOps == RunnerDropOps \o (IF scene.some THEN SceneDropOps ELSE <<>>)

\* The event loop, asked to exit, returns from run_app; run_application
\* returns and drops the runner.  exit() only sets a flag that the loop reads
\* between its iterations, so the events already queued for the current
\* iteration are still delivered before this step: the event actions stay
\* enabled until the loop has returned.
RunAppReturns ==
    /\ phase = "running"
    /\ exiting
    /\ phase' = "returned"
    /\ event' = [NoEvent EXCEPT !.kind = "LoopExiting"]
    /\ ops' = DropOps
    /\ UNCHANGED <<runnerFields, surfaceSize, viewport, windowSize, exiting,
                   cleanupCalls, destroyCalls, scene, frameVars, loaderVars,
                   clock>>

Next ==
    \/ Resumed
    \/ CloseRequested
    \/ Resized
    \/ KeyboardInput
    \/ RedrawRequested
    \/ OtherEvent
    \/ RunAppReturns

Spec == Init /\ [][Next]_vars

\* ---------------------------------------------- the runner with a TriangleApp
\* run_application(TriangleApp::default()), as in main.rs: the hooks the
\* handlers call are those of the TriangleApp, applied to `scene` in the
\* order of the calls.  Of the hooks only initialize can fail (Scene::new
\* reads and builds the shaders); update, render, render_ui, on_resize and
\* the default cleanup return Ok(()) whatever the scene.

\* The window events, with what the UI input layer and the UI pass answer.
TriangleEvents ==
    {[NoEvent EXCEPT !.kind = kind, !.consumed = consumed] :
        kind \in {"CloseRequested", "Other"}, consumed \in BOOLEAN}
    \cup {[NoEvent EXCEPT !.kind = "Resized", !.w = w, !.h = h,
                          !.consumed = consumed] :
            w \in Dims, h \in Dims, consumed \in BOOLEAN}
    \cup {[NoEvent EXCEPT !.kind = "KeyboardInput", !.key = key,
                          !.pressed = pressed, !.consumed = consumed] :
            key \in Keys, pressed \in BOOLEAN, consumed \in BOOLEAN}
    \cup {[NoEvent EXCEPT !.kind = "RedrawRequested", !.set = set, !.free = free] :
            set \in TexSeqs, free \in TexSeqs}
    \cup {[NoEvent EXCEPT !.kind = "RedrawRequested", !.consumed = TRUE]}

\* winit calls AppRunner::resumed of a runner whose app is a TriangleApp.
TriangleResumed ==
    /\ phase = "running"
    /\ \E initOk \in Answers(~window) :
        /\ event' = [NoEvent EXCEPT !.kind = "Resumed", !.initOk = initOk]
        /\ Handled(ResumedCalls(initOk, TRUE))
        /\ scene' = AppAfter(scene, ResumedCalls(initOk, TRUE), initOk)
    /\ UNCHANGED <<windowSize, phase, frameVars, clock>>

\* winit delivers a window event to a runner whose app is a TriangleApp.
TriangleWindowEvent ==
    /\ phase = "running"
    /\ \E e \in TriangleEvents :
        /\ e.kind \in {"CloseRequested", "KeyboardInput"} => cleanupCalls < MaxCalls
        /\ event' = e
        /\ Handled(WindowEventOps(e))
        /\ scene' = AppAfter(scene, WindowEventOps(e), TRUE)
        /\ windowSize' = IF e.kind = "Resized" /\ window
                         THEN <<e.w, e.h>> ELSE windowSize
    /\ UNCHANGED <<phase, frameVars, clock>>

TriangleNext ==
    \/ TriangleResumed
    \/ TriangleWindowEvent
    \/ RunAppReturns

TriangleSpec == Init /\ [][TriangleNext]_vars

\* --------------------------------------------------- the requests of redraws
\* The runner with an App whose hooks succeed, and the window's side of
\* window.request_redraw(): a request stays pending until winit delivers a
\* RedrawRequested.  The platform also delivers RedrawRequested on its own,
\* when the window is first shown or exposed.  The UI input layer is offered
\* a RedrawRequested like every event and does not consume it.

\* The window events but RedrawRequested.
FrameEvents == {e \in TriangleEvents : e.kind # "RedrawRequested"}

\* The RedrawRequested events, with what the UI pass of the frame answers.
RedrawEvents == {e \in TriangleEvents : e.kind = "RedrawRequested" /\ ~e.consumed}

\* winit calls AppRunner::resumed.
FrameResumed ==
    /\ phase = "running"
    /\ event' = [NoEvent EXCEPT !.kind = "Resumed"]
    /\ Handled(ResumedCalls(TRUE, TRUE))
    /\ UNCHANGED <<windowSize, phase, scene, frameVars, clock>>

\* winit delivers a window event that is not a RedrawRequested.
FrameWindowEvent ==
    /\ phase = "running"
    /\ \E e \in FrameEvents :
        /\ e.kind \in {"CloseRequested", "KeyboardInput"} => cleanupCalls < MaxCalls
        /\ event' = e
        /\ Handled(WindowEventOps(e))
        /\ windowSize' = IF e.kind = "Resized" /\ window
                         THEN <<e.w, e.h>> ELSE windowSize
    /\ UNCHANGED <<phase, scene, frameVars, clock>>

\* winit delivers RedrawRequested `e`: the pending request, if any, is used
\* up, and the handler, when it gets to the end of the arm, makes a new one.
RedrawDelivered(e) ==
    /\ event' = e
    /\ ops' = WindowEventOps(e)
    /\ Handled(ops')
    /\ redrawRequested' = (Count(ops', "request_redraw") > 0)
    /\ frameParity' = IF Count(ops', "render") > 0
                      THEN 1 - frameParity ELSE frameParity
    /\ UNCHANGED <<windowSize, phase, scene, clock>>

\* The platform asks for a redraw that the runner did not request.
PlatformRedraw ==
    /\ phase = "running"
    /\ ~redrawRequested
    /\ \E e \in RedrawEvents : RedrawDelivered(e)

\* winit delivers the redraw that window.request_redraw() asked for.
RequestedRedraw ==
    /\ phase = "running"
    /\ redrawRequested
    /\ \E e \in RedrawEvents : RedrawDelivered(e)

FrameNext ==
    \/ FrameResumed
    \/ FrameWindowEvent
    \/ PlatformRedraw
    \/ RequestedRedraw
    \/ RunAppReturns

\* Every requested redraw is delivered, as long as the loop runs.
FrameSpec == Init /\ [][FrameNext]_vars /\ WF_vars(RequestedRedraw)

\* The event loop returns once it has been asked to exit.
FairSpec == Spec /\ WF_vars(RunAppReturns)

\* ------------------------------------------------------------ the frame clock
\* The runner with an App whose hooks succeed, and the clock, which ticks
\* between the events.

\* The window events, the UI pass of a frame changing no texture.
ClockEvents == {e \in TriangleEvents : e.set = <<>> /\ e.free = <<>>}

\* winit calls AppRunner::resumed.
ClockResumed ==
    /\ phase = "running"
    /\ event' = [NoEvent EXCEPT !.kind = "Resumed"]
    /\ Handled(ResumedCalls(TRUE, TRUE))
    /\ clock' = ClockAfter(clock, ResumedCalls(TRUE, TRUE))
    /\ UNCHANGED <<windowSize, phase, scene, frameVars>>

\* winit delivers a window event.
ClockWindowEvent ==
    /\ phase = "running"
    /\ \E e \in ClockEvents :
        /\ e.kind \in {"CloseRequested", "KeyboardInput"} => cleanupCalls < MaxCalls
        /\ event' = e
        /\ ops' = WindowEventOps(e)
        /\ Handled(ops')
        /\ clock' = ClockAfter(clock, ops')
        /\ windowSize' = IF e.kind = "Resized" /\ window
                         THEN <<e.w, e.h>> ELSE windowSize
    /\ UNCHANGED <<phase, scene, frameVars>>

\* A second passes.
Tick ==
    /\ phase = "running"
    /\ clock.now < MaxTime
    /\ clock' = [clock EXCEPT !.now = @ + 1]
    /\ UNCHANGED <<hostVars, loaderVars>>

ClockNext ==
    \/ ClockResumed
    \/ ClockWindowEvent
    \/ Tick
    \/ RunAppReturns

ClockSpec == Init /\ [][ClockNext]_vars

\* ------------------------------------------------- the shader loader's calls
\* A ShaderProgram, from ShaderProgram::new on, under any sequence of attach
\* and link calls (Scene::new makes two attach calls and a link).

\* A caller attaches a shader of some kind from a file.
Attach ==
    /\ loader.created < MaxShaders
    /\ \E file \in Files :
       \E gpu \in (IF Compiles(file) THEN GpuAnswers
                   ELSE {[success |-> TRUE, log |-> NoLog]}) :
        /\ loader' = attach(loader, file, gpu)
        /\ lastCall' = [name |-> "attach", result |-> load_file(file, gpu),
                    file |-> file, gpu |-> gpu,
                    pending |-> loader.shader_ids,
                    released |-> SubSeq(loader'.deleted, Len(loader.deleted) + 1,
                                        Len(loader'.deleted))]
    /\ UNCHANGED <<hostVars, clock>>

\* A caller links the program.
Link ==
    /\ \E gpu \in GpuAnswers :
        /\ loader' = link(loader, gpu)
        /\ lastCall' = [name |-> "link", result |-> check_status("Link", gpu),
                    file |-> NoCall.file, gpu |-> gpu,
                    pending |-> loader.shader_ids,
                    released |-> SubSeq(loader'.deleted, Len(loader.deleted) + 1,
                                        Len(loader'.deleted))]
    /\ UNCHANGED <<hostVars, clock>>

ShaderNext ==
    \/ Attach
    \/ Link

ShaderSpec == Init /\ [][ShaderNext]_vars

\* ------------------------------------------------------------- properties

\* The names of `calls`, in order.
Names(calls) == [i \in DOMAIN calls |-> calls[i].op]

\* The names of those of `calls` whose name is in `names`, in order.
Only(calls, names) ==
    LET Wanted(n) == n \in names
    IN  SelectSeq(Names(calls), Wanted)

\* The first arguments of the calls named `name` among `calls`, in order.
Args(calls, name) ==
    LET Named(c) == c.op = name
        picked == SelectSeq(calls, Named)
    IN  [i \in DOMAIN picked |-> picked[i].x]

AppHooks == {"initialize", "update", "render", "render_ui", "cleanup", "on_resize"}

ErrorLines ==
    {"Initialization error", "Resize error", "Cleanup error", "Update error",
     "Render error", "UI render error"}

\* The last event was a window event of kind `kind` that an initialised
\* runner received and the UI input layer did not consume.
Reached(kind) ==
    /\ window /\ egui_state /\ egui_ctx /\ egui_glow
    /\ event.kind = kind
    /\ ~event.consumed

\* The same of the event a step delivers.
ReachedNext(kind) ==
    /\ window /\ egui_state /\ egui_ctx /\ egui_glow
    /\ event'.kind = kind
    /\ ~event'.consumed

\* C1: the calls made while an initialised runner handles an unconsumed
\* RedrawRequested are, among the App hooks, the UI pass, the overlay paint
\* and the presentation, exactly update, render, begin_pass, render_ui,
\* end_pass, paint_primitives, swap_buffers, in this order and once each.
C1_FrameOrder ==
    Reached("RedrawRequested") =>
        Only(ops, AppHooks \cup {"begin_pass", "end_pass", "paint_primitives",
                                 "swap_buffers"})
          = <<"update", "render", "begin_pass", "render_ui", "end_pass",
              "paint_primitives", "swap_buffers">>

C1_Witness ==
    /\ Reached("RedrawRequested")
    /\ ~event.renderOk
    /\ Count(ops, "swap_buffers") = 1

\* C2: an unconsumed Resized(w, h) that an initialised runner receives leaves
\* the surface size alone and calls no on_resize when w = 0 or h = 0, and
\* otherwise makes the surface size <<w, h>> and calls on_resize once, with
\* (w, h).
C2_Resize ==
    [][ReachedNext("Resized") =>
          IF event'.w = 0 \/ event'.h = 0
          THEN /\ surfaceSize' = surfaceSize
               /\ Count(ops', "on_resize") = 0
          ELSE /\ surfaceSize' = <<event'.w, event'.h>>
               /\ Count(ops', "on_resize") = 1
               /\ \A i \in Positions(ops', "on_resize") :
                     ops'[i] = Op2("on_resize", event'.w, event'.h)]_vars

C2_Witness ==
    /\ Reached("Resized")
    /\ event.w = 0
    /\ surfaceSize = <<1, 1>>
    /\ windowSize = <<0, event.h>>

\* C3: an event the UI input layer consumes calls no App hook, does not
\* resize or present the surface, does not destroy the overlay and does not
\* ask the event loop to exit, whatever its kind.
C3_ConsumedIgnored ==
    [][(event'.kind \in Kinds /\ event'.consumed) =>
          /\ Only(ops', AppHooks \cup {"surface_resize", "gl_viewport",
                                       "swap_buffers", "paint_primitives",
                                       "destroy", "exit"}) = <<>>
          /\ surfaceSize' = surfaceSize
          /\ exiting' = exiting
          /\ cleanupCalls' = cleanupCalls
          /\ destroyCalls' = destroyCalls]_vars

C3_Witness ==
    /\ window
    /\ event.kind = "CloseRequested"
    /\ event.consumed
    /\ ops = <<Op("on_window_event")>>
    /\ ~exiting

\* C4: every destroy of the overlay painter follows, in its handler, the
\* call of App.cleanup (and the report of its error), and the runner's
\* window, context and surface are dropped only after a destroy, in a step of
\* their own.
C4_ShutdownOrder ==
    /\ \A i \in Positions(ops, "destroy") :
          \E j \in Positions(ops, "cleanup") : j < i
    /\ destroyCalls > 0 => cleanupCalls > 0
    /\ \A i \in DOMAIN ops :
          ops[i].op \in {"drop_window", "drop_gl_context", "drop_gl_surface"} =>
              /\ destroyCalls > 0
              /\ Count(ops, "destroy") = 0
              /\ Count(ops, "cleanup") = 0
    /\ phase = "returned" => destroyCalls > 0

C4_Witness ==
    /\ phase = "returned"
    /\ cleanupCalls = 1
    /\ destroyCalls = 1
    /\ Count(ops, "drop_gl_context") = 1

\* C5: App.cleanup is never called a second time, and has been called
\* exactly once when the loop has returned.
C5_CleanupOnce ==
    /\ cleanupCalls <= 1
    /\ phase = "returned" => cleanupCalls = 1

\* C6: once the event loop has been asked to exit, no event makes the runner
\* call update, render, render_ui or on_resize, upload, paint or free overlay
\* textures, or resize or present the surface.
C6_ShutdownImmediate ==
    [][exiting =>
          Only(ops', {"update", "render", "render_ui", "on_resize",
                      "set_texture", "paint_primitives", "free_texture",
                      "surface_resize", "swap_buffers"}) = <<>>]_vars

\* An initialised runner has just handled an unconsumed close request or
\* Escape key.
ShutdownHandled ==
    \/ Reached("CloseRequested")
    \/ Reached("KeyboardInput") /\ event.key = "Escape"

\* C7: after an initialised runner has handled an unconsumed close request
\* or Escape key, the event loop eventually returns, whatever cleanup
\* answered.
C7_Terminates == ShutdownHandled ~> (phase = "returned")

C7_Witness ==
    /\ ShutdownHandled
    /\ ~event.cleanupOk
    /\ exiting

\* C8: a surface that a redraw presents has non-zero width and height, equal
\* to the window's current client size.
C8_PresentedSurfaceMatchesWindow ==
    Count(ops, "swap_buffers") > 0 =>
        /\ surfaceSize[1] > 0 /\ surfaceSize[2] > 0
        /\ surfaceSize = windowSize

\* C9: in a frame, the textures the UI output adds are uploaded, each and in
\* their order, before the one paint_primitives call, and the textures it
\* removes are freed, each and in their order, after it.
C9_TextureOrder ==
    Reached("RedrawRequested") =>
        /\ Count(ops, "paint_primitives") = 1
        /\ Args(ops, "set_texture") = event.set
        /\ Args(ops, "free_texture") = event.free
        /\ \A p \in Positions(ops, "paint_primitives") :
              /\ \A i \in Positions(ops, "set_texture") : i < p
              /\ \A i \in Positions(ops, "free_texture") : p < i

C9_Witness ==
    /\ Reached("RedrawRequested")
    /\ event.set # <<>>
    /\ event.free # <<>>
    /\ Count(ops, "set_texture") > 0
    /\ Count(ops, "free_texture") > 0

\* The names of `calls`, in order, without the lines printed to stderr.
Steps(calls) ==
    LET Call(n) == n \notin ErrorLines
    IN  SelectSeq(Names(calls), Call)

\* The steps of a frame whose UI output adds `set` and frees `free`.
FrameSteps(set, free) ==
    <<"on_window_event", "update", "render", "take_egui_input", "begin_pass",
      "render_ui", "end_pass", "handle_platform_output", "tessellate">>
    \o [i \in DOMAIN set |-> "set_texture"]
    \o <<"gl_disable_scissor", "paint_primitives">>
    \o [i \in DOMAIN free |-> "free_texture"]
    \o <<"swap_buffers", "request_redraw">>

\* C10: whichever of update, render, render_ui and on_resize fail, the
\* handler reports each failure and still makes every call of the frame (or
\* of the resize), in the usual order, and the event loop is not asked to
\* exit and keeps running.
C10_HookErrorsContinue ==
    [][/\ ReachedNext("RedrawRequested") =>
             /\ Steps(ops') = FrameSteps(event'.set, event'.free)
             /\ Count(ops', "Update error") = (IF event'.updateOk THEN 0 ELSE 1)
             /\ Count(ops', "Render error") = (IF event'.renderOk THEN 0 ELSE 1)
             /\ Count(ops', "UI render error") = (IF event'.uiOk THEN 0 ELSE 1)
             /\ exiting' = exiting
             /\ phase' = "running"
       /\ (ReachedNext("Resized") /\ event'.w # 0 /\ event'.h # 0) =>
             /\ Steps(ops')
                  = <<"on_window_event", "surface_resize", "gl_viewport", "on_resize">>
             /\ Count(ops', "Resize error") = (IF event'.resizeOk THEN 0 ELSE 1)
             /\ exiting' = exiting
             /\ phase' = "running"]_vars

C10_Witness ==
    /\ Reached("RedrawRequested")
    /\ ~event.updateOk /\ ~event.renderOk /\ ~event.uiOk
    /\ Count(ops, "swap_buffers") = 1
    /\ Count(ops, "request_redraw") = 1
    /\ ~exiting
    /\ phase = "running"

\* The runner of a TriangleApp whose initialize failed: startup is over and
\* there is no scene.
InitFailed == window /\ ~scene.some

\* C11: when TriangleApp.initialize fails in the first resumed, the failure
\* is reported, on_resize is still called with the window's initial size and
\* the window, context, surface, painter and UI state are still stored; the
\* scene stays absent, every later hook leaves it absent and reports no
\* error, and unconsumed redraw, resize and close events make the calls they
\* make after a successful initialize.
C11_InitErrorStillReady ==
    /\ (event.kind = "Resumed" /\ ~event.initOk) =>
          /\ Only(ops, AppHooks \cup ErrorLines \cup {"store_fields"})
               = <<"initialize", "Initialization error", "on_resize", "store_fields">>
          /\ \A i \in Positions(ops, "on_resize") :
                ops[i] = Op2("on_resize", InitWidth, InitHeight)
          /\ window /\ gl_context /\ gl_surface
          /\ egui_glow /\ egui_state /\ egui_ctx
          /\ ~scene.some
    /\ InitFailed =>
          /\ scene = NoScene
          /\ event.kind \in Kinds => Only(ops, ErrorLines) = <<>>
          /\ Reached("RedrawRequested") =>
                Steps(ops) = FrameSteps(event.set, event.free)
          /\ (Reached("Resized") /\ event.w # 0 /\ event.h # 0) =>
                /\ Steps(ops) = <<"on_window_event", "surface_resize",
                                  "gl_viewport", "on_resize">>
                /\ surfaceSize = <<event.w, event.h>>
          /\ Reached("CloseRequested") =>
                /\ Steps(ops) = <<"on_window_event", "cleanup", "destroy", "exit">>
                /\ exiting

C11_Witness ==
    /\ InitFailed
    /\ Reached("RedrawRequested")
    /\ Count(ops, "update") = 1
    /\ Count(ops, "swap_buffers") = 1
    /\ surfaceSize = <<1, 1>>

\* C12: when App.cleanup fails while an unconsumed close request or Escape
\* key is handled, the failure is reported and the overlay painter is still
\* destroyed and the event loop still asked to exit, in the order of a
\* shutdown whose cleanup succeeded.
C12_CleanupErrorShutsDown ==
    (ShutdownHandled /\ ~event.cleanupOk) =>
        /\ Steps(ops) = <<"on_window_event", "cleanup", "destroy", "exit">>
        /\ Names(ops) = <<"on_window_event", "cleanup", "Cleanup error",
                          "destroy", "exit">>
        /\ destroyCalls > 0
        /\ exiting

C12_Witness ==
    /\ Reached("CloseRequested")
    /\ ~event.cleanupOk
    /\ Count(ops, "Cleanup error") = 1
    /\ Count(ops, "destroy") = 1
    /\ destroyCalls = 1
    /\ exiting

\* What startup creates and makes current, and the hooks it calls.
StartupCalls ==
    {"create_window", "create_context", "create_surface", "make_current"}
    \cup AppHooks

\* C13: the first resumed creates the window, the context and the surface,
\* makes the context current, and calls initialize and then on_resize with
\* the window's initial size; no hook is called before it; every later
\* resumed creates nothing, makes nothing current and calls no hook.
C13_StartupOnce ==
    [][/\ ~window => Only(ops, AppHooks) = <<>>
       /\ event'.kind = "Resumed" =>
             IF window
             THEN /\ ops' = <<>>
                  /\ UNCHANGED <<runnerFields, surfaceSize, viewport>>
             ELSE /\ Only(ops', StartupCalls)
                       = <<"create_window", "create_context", "create_surface",
                           "make_current", "initialize", "on_resize">>
                  /\ \A i \in Positions(ops', "on_resize") :
                        ops'[i] = Op2("on_resize", InitWidth, InitHeight)
                  /\ window']_vars

C13_Witness ==
    /\ event.kind = "Resumed"
    /\ window
    /\ ops = <<>>
    /\ surfaceSize = <<1, 1>>

\* C14: the overlay painter is never destroyed a second time, and has been
\* destroyed exactly once when the loop has returned and the context is
\* dropped.
C14_DestroyOnce ==
    /\ destroyCalls <= 1
    /\ phase = "returned" => destroyCalls = 1

\* C15: every unconsumed RedrawRequested that an initialised runner handles
\* ends with window.request_redraw(), which leaves a redraw requested; and
\* when every requested redraw is delivered, a frame is followed by another
\* frame unless the event loop is asked to exit.
C15_FramesRecur ==
    /\ [](Reached("RedrawRequested") =>
            /\ ops # <<>>
            /\ ops[Len(ops)] = Op("request_redraw")
            /\ Count(ops, "request_redraw") = 1
            /\ redrawRequested)
    /\ \A n \in {0, 1} :
          (Reached("RedrawRequested") /\ frameParity = n)
              ~> (frameParity # n \/ exiting)

C15_Witness ==
    /\ Reached("RedrawRequested")
    /\ redrawRequested
    /\ frameParity = 0
    /\ Count(ops, "swap_buffers") = 1
    /\ ~exiting

\* C16: the projection is recomputed at most once for as long as
\* aspect_ratio keeps its value, however many set_aspect_ratio calls give
\* that ratio again and however many update_projection calls follow; and a
\* frame leaves the projection not dirty.
C16_RecomputedOnce ==
    scene.some =>
        /\ scene.recomputes <= 1
        /\ scene.recomputes = 1 => scene.projection = Perspective(scene.aspect_ratio)
        /\ Reached("RedrawRequested") => ~scene.projection_dirty

C16_Witness ==
    /\ scene.some
    /\ scene.repeated
    /\ scene.recomputes = 1
    /\ ~scene.projection_dirty
    /\ Reached("RedrawRequested")
    /\ Count(ops, "update") = 1

\* The calls that release a GPU resource of the TriangleApp.
AppReleases ==
    {"gl_delete_buffers_ibo", "gl_delete_buffers_vbo", "gl_delete_vertex_arrays",
     "gl_delete_program"}

\* How often `id` was given to gl::DeleteShader.
Deletes(id) == Cardinality({i \in DOMAIN loader.deleted : loader.deleted[i] = id})

\* C17: no shader unit is deleted twice; and after a link that succeeded,
\* shader_ids is empty, the units the link deleted are those shader_ids held
\* before it, in order, and every unit attached to the program since it was
\* created has been deleted exactly once.
C17_LinkReleasesOnce ==
    /\ \A id \in 1..loader.created : Deletes(id) <= 1
    /\ (lastCall.name = "link" /\ lastCall.result.kind = "Ok") =>
          /\ loader.shader_ids = <<>>
          /\ lastCall.released = lastCall.pending
          /\ \A id \in loader.attached : Deletes(id) = 1

C17_Witness ==
    /\ lastCall.name = "link"
    /\ lastCall.result.kind = "Ok"
    /\ lastCall.pending = <<>>
    /\ lastCall.released = <<>>
    /\ loader.attached = {1, 2}
    /\ loader.deleted = <<1, 2>>

\* C18: Shader::load fails exactly when the GPU reports that the compile
\* failed; the error is of the kind without a message when the info log is
\* empty (of length 0, or holding only its terminating NUL), and otherwise
\* carries the text of the log unchanged.
C18_CompileErrors ==
    (lastCall.name = "attach" /\ lastCall.file.readable) =>
        /\ lastCall.result.kind # "Ok" <=> ~lastCall.gpu.success
        /\ (~lastCall.gpu.success /\ lastCall.gpu.log.text = <<>>) =>
              lastCall.result.kind = "CompileFailedNoMessage"
        /\ (~lastCall.gpu.success /\ lastCall.gpu.log.text # <<>>) =>
              /\ lastCall.result.kind = "CompileFailed"
              /\ lastCall.result.text = lastCall.gpu.log.text

\* C19: no GPU resource of the App is released after the GPU context has
\* been dropped: no delete of the scene's buffers, vertex array or program
\* follows the drop of the runner's gl_context.
C19_AppReleasedBeforeContext ==
    \A i \in DOMAIN ops :
        ops[i].op \in AppReleases =>
            \A j \in Positions(ops, "drop_gl_context") : i < j

\* C20: every render of an existing scene has used a projection that was
\* not dirty and was the perspective of the current aspect_ratio, and in
\* every state a projection that is not dirty is the perspective of
\* aspect_ratio, or the scene is new.
C20_ProjectionCurrentAtRender ==
    scene.some =>
        /\ ~scene.staleRender
        /\ Reached("RedrawRequested") =>
              /\ ~scene.projection_dirty
              /\ scene.projection = Perspective(scene.aspect_ratio)
        /\ ~scene.projection_dirty =>
              scene.projection = Perspective(scene.aspect_ratio)

C20_Witness ==
    /\ scene.some
    /\ Reached("RedrawRequested")
    /\ Count(ops, "render") = 1
    /\ scene.aspect_ratio = <<1, 1>>
    /\ scene.projection = Perspective(<<1, 1>>)
    /\ windowSize = <<0, 1>>

\* C22: an unconsumed Resized(w, h) with w and h not zero resizes the
\* surface to (w, h), then sets the viewport to (w, h), then calls
\* on_resize(w, h); and whatever events came, the viewport has the size of
\* the surface.
C22_ViewportBeforeHook ==
    /\ (Reached("Resized") /\ event.w # 0 /\ event.h # 0) =>
          /\ Only(ops, {"surface_resize", "gl_viewport", "on_resize"})
               = <<"surface_resize", "gl_viewport", "on_resize">>
          /\ \A i \in DOMAIN ops :
                ops[i].op \in {"surface_resize", "gl_viewport", "on_resize"} =>
                    /\ ops[i].x = event.w
                    /\ ops[i].y = event.h
          /\ surfaceSize = <<event.w, event.h>>
    /\ viewport = surfaceSize

C22_Witness ==
    /\ Reached("Resized")
    /\ event.w = 0
    /\ viewport = <<1, 1>>
    /\ surfaceSize = <<1, 1>>
    /\ windowSize[1] = 0

\* C23: window, gl_context, gl_surface, egui_glow, egui_state and egui_ctx
\* are all absent or all present; and while they are absent, no window
\* event has made a call or changed the surface, the viewport, the window's
\* size, the shutdown counts or the exit flag.
C23_Lockstep ==
    /\ \/ window /\ gl_context /\ gl_surface
          /\ egui_glow /\ egui_state /\ egui_ctx
       \/ ~window /\ ~gl_context /\ ~gl_surface
          /\ ~egui_glow /\ ~egui_state /\ ~egui_ctx
    /\ ~window =>
          /\ ops = <<>>
          /\ surfaceSize = <<0, 0>>
          /\ viewport = <<0, 0>>
          /\ windowSize = <<InitWidth, InitHeight>>
          /\ cleanupCalls = 0
          /\ destroyCalls = 0
          /\ ~exiting
          /\ phase = "running"

C23_Witness ==
    /\ ~window /\ ~gl_surface /\ ~egui_glow
    /\ event.kind = "CloseRequested"
    /\ ~event.consumed
    /\ ops = <<>>
    /\ ~exiting

\* C24: an attach that fails leaves its shader unit out of the attached
\* units and out of shader_ids, which keeps the ids it held; a link that
\* fails deletes no shader unit and leaves shader_ids as it was.
C24_FailureKeepsBookkeeping ==
    (lastCall.name \in {"attach", "link"} /\ lastCall.result.kind # "Ok") =>
        /\ loader.shader_ids = lastCall.pending
        /\ lastCall.released = <<>>
        /\ lastCall.name = "attach" =>
              /\ loader.created \notin loader.attached
              /\ \A i \in DOMAIN loader.shader_ids :
                    loader.shader_ids[i] # loader.created

C24_Witness ==
    /\ lastCall.name = "link"
    /\ lastCall.result.kind = "LinkFailed"
    /\ loader.shader_ids = <<1, 3>>
    /\ loader.attached = {1, 3}
    /\ loader.deleted = <<>>

\* C21: no step changes start_time; a step changes last_frame_time,
\* delta_time or time only when it handles an unconsumed RedrawRequested,
\* and then last_frame_time becomes the clock's reading, delta_time the
\* time since the last frame and time the time since the start; and in
\* every state the time last given to App.render is the sum of every
\* delta_time given to App.update, which is last_frame_time - start_time.
C21_ClockNeverReset ==
    /\ [](/\ clock.time = clock.deltaSum
          /\ clock.deltaSum = clock.last_frame_time - clock.start_time
          /\ clock.last_frame_time <= clock.now)
    /\ [][clock'.start_time = clock.start_time]_vars
    /\ [][IF clock'.now = clock.now /\ ReachedNext("RedrawRequested")
          THEN /\ clock'.last_frame_time = clock.now
               /\ clock'.delta_time = clock.now - clock.last_frame_time
               /\ clock'.time = clock.now - clock.start_time
               /\ clock'.deltaSum = clock.deltaSum + clock'.delta_time
          ELSE /\ clock'.last_frame_time = clock.last_frame_time
               /\ clock'.delta_time = clock.delta_time
               /\ clock'.time = clock.time
               /\ clock'.deltaSum = clock.deltaSum]_vars

C21_Witness ==
    /\ Reached("RedrawRequested")
    /\ Count(ops, "render") = 1
    /\ clock.now = 3
    /\ clock.delta_time = 1
    /\ clock.time = 2
    /\ clock.last_frame_time = 3
    /\ surfaceSize = <<1, 1>>

====
